---- MODULE Spec2Model ----
(***************************************************************************)
(* Korean text normaliser, kolm/normalize.py.                              *)
(*                                                                         *)
(* A character is its Unicode code point, a line is a sequence of code     *)
(* points and a corpus or body is a sequence of lines.  The regular        *)
(* expressions of the source are translated with the semantics of Python   *)
(* 3's re module on str: matches are found left to right, do not overlap,  *)
(* quantifiers are greedy, look-arounds read the string being scanned,     *)
(* \d is every Unicode decimal digit and \s is every Unicode white space.  *)
(***************************************************************************)
EXTENDS Integers, Sequences, FiniteSets

VARIABLES pc,      \* control position: the function being run and where it is
          corpus,  \* the lines the running function still has to iterate over
          body,    \* the accumulator of bySentence / normalize / Knormalize
          line,    \* the line a pass is rewriting
          total,   \* len(list) of the scan made before a rescan loop starts
          i,       \* index of the rescan loop
          found,   \* number of matches of the last fresh scan of a rescan loop
          prev,    \* the value the last step or the running pass was given (history)
          input    \* what bySentence or a reading pass run on its own was given
                   \* (history)

vars == <<pc, corpus, body, line, total, i, found, prev, input>>

----------------------------------------------------------------------------
(* Characters                                                              *)

TAB == 9
LF == 10
CR == 13
SPACE == 32
EXCLAM == 33
SHARP == 35
LPAREN == 40
RPAREN == 41
PLUS == 43
COMMA == 44
MINUS == 45
PERIOD == 46
ONE == 49
COLON == 58
SEMICOLON == 59
EQUALS == 61
QUESTION == 63
AT == 64
CapA == 65
CapB == 66
LBRACKET == 91
RBRACKET == 93
SmallA == 97
TILDE == 126
MIDDLEDOT == 183
ELLIPSIS == 8230
ARROW == 8594
LLENTICULAR == 12304
RLENTICULAR == 12305
LTORTOISE == 12308
RTORTOISE == 12309
GIYEOK == 12593
KIEUK == 12619
SSANGGIYEOK == 12594
EU == 12641
HAN == 28450
GA == 44032
GI == 44592
YE == 50696
JA == 51088
JEOM == 51216
FullwidthOne == 65297
\* No character: what a look-around reads beyond either end of the line.
NoChar == 0 - 1

At(s, p) == IF p >= 1 /\ p <= Len(s) THEN s[p] ELSE NoChar

\* [가-힣]
IsHangul(c) == c >= 44032 /\ c <= 55203
\* [A-Z]
IsUpper(c) == c >= 65 /\ c <= 90
\* [a-z]
IsLower(c) == c >= 97 /\ c <= 122
\* [A-Za-z]
IsLatin(c) == IsUpper(c) \/ IsLower(c)
\* \d on str: ASCII digits and the other decimal digits of Unicode, of which
\* the Arabic-Indic and the fullwidth digits are listed.
IsDigit(c) == \/ c >= 48 /\ c <= 57
              \/ c >= 1632 /\ c <= 1641
              \/ c >= 65296 /\ c <= 65305
\* [0-9] as the literal patterns '0' ... '9' of readNumber know it
IsAsciiDigit(c) == c >= 48 /\ c <= 57
\* \s on str, which is also what str.isspace and str.strip test
IsSpace(c) == \/ c >= 9 /\ c <= 13
              \/ c >= 28 /\ c <= 32
              \/ c \in {133, 160, 5760, 8232, 8233, 8239, 8287, 12288}
              \/ c >= 8192 /\ c <= 8202
\* the line boundaries of str.splitlines
IsLineBreak(c) == \/ c >= 10 /\ c <= 13
                  \/ c >= 28 /\ c <= 30
                  \/ c \in {133, 8232, 8233}
\* [一-龥豈-龎]
IsHanja(c) == \/ c >= 19968 /\ c <= 40869
              \/ c >= 35912 /\ c <= 40846
\* [ㄱ-ㅎ]
IsJamo(c) == c >= 12593 /\ c <= 12622
\* [\.\?\!]
IsFinalMark(c) == c \in {PERIOD, QUESTION, EXCLAM}

----------------------------------------------------------------------------
(* Sequences                                                               *)

\* ''.join(ss)
Cat(ss) ==
  LET f[k \in 0..Len(ss)] == IF k = 0 THEN <<>> ELSE f[k - 1] \o ss[k]
  IN  f[Len(ss)]

\* str.count of one character
Count(s, c) == Cardinality({p \in 1..Len(s) : s[p] = c})

\* s[a-1:b] of Python for 1 <= a, b <= Len(s): the characters a..b
Slice(s, a, b) == IF a > b THEN <<>> ELSE SubSeq(s, a, b)

\* Strings over the characters C of length at most n
Strings(C, n) ==
  LET f[k \in 0..n] ==
        IF k = 0 THEN {<<>>}
        ELSE f[k - 1] \cup {Append(s, c) : s \in f[k - 1], c \in C}
  IN  f[n]

\* re.sub of a pattern that matches one character (with look-arounds): the
\* character at each of the positions hits is replaced by repl.
SubChar(s, hits, repl) ==
  Cat([p \in 1..Len(s) |-> IF p \in hits THEN repl ELSE <<s[p]>>])

\* The spans re.finditer yields for a pattern whose match starting at p ends at
\* last[p] (0: no match at p; matches are not empty): leftmost first, the scan
\* resuming after each match.
Spans(last) ==
  LET n == Len(last)
      f[p \in 1..(n + 1)] ==
        IF p > n THEN <<>>
        ELSE IF last[p] >= p THEN <<(<<p, last[p]>>)>> \o f[last[p] + 1]
        ELSE f[p + 1]
  IN  f[1]

\* line[0:ituple[0]] + newstr + line[ituple[1]:], the span being the
\* characters ituple[1]..ituple[2] (1-based, inclusive)
replaceSubstring(s, newstr, ituple) ==
  Slice(s, 1, ituple[1] - 1) \o newstr \o Slice(s, ituple[2] + 1, Len(s))

\* re.sub(pattern, repl, s) for a pattern whose matches are the spans
SubSpans(s, spans, repl) ==
  LET f[k \in 0..Len(spans)] ==
        IF k = 0 THEN s
        ELSE replaceSubstring(f[k - 1], repl, spans[Len(spans) + 1 - k])
  IN  f[Len(spans)]

\* The last position of the run that starts at p of characters of a class,
\* given by the positions of s that hold one (p - 1 when the character at p is
\* not of the class): a greedy c*
RunEnd(s, p, class) ==
  LET n == Len(s)
      f[q \in p..(n + 1)] ==
        IF q <= n /\ q \in class THEN f[q + 1] ELSE q - 1
  IN  IF p > n THEN p - 1 ELSE f[p]

----------------------------------------------------------------------------
(* bySentence, lines 36-67                                                 *)

\* line 41: re.sub('…', '.', line)
Sub41(s) ==
  SubChar(s, {p \in 1..Len(s) : s[p] = ELLIPSIS}, <<PERIOD>>)

\* line 45: re.sub('(?<=\.[A-Z])\.', '', line)
Sub45(s) ==
  SubChar(s, {p \in 1..Len(s) : /\ s[p] = PERIOD
                                /\ IsUpper(At(s, p - 1))
                                /\ At(s, p - 2) = PERIOD},
             <<>>)

\* line 46: re.sub('(?<=[A-Z])\.(?=[A-Z])', '', line)
Sub46(s) ==
  SubChar(s, {p \in 1..Len(s) : /\ s[p] = PERIOD
                                /\ IsUpper(At(s, p - 1))
                                /\ IsUpper(At(s, p + 1))},
             <<>>)

\* re.sub('\.\.', '.', line) and the like, which halves a run of the mark: what
\* lines 49-51 would be with a pair for a pattern in place of a run
SquashPairs(s, mark) ==
  SubChar(s, {p \in 1..Len(s) :
                /\ s[p] = mark
                /\ Cardinality({q \in 1..(p - 1) :
                                  \A r \in q..(p - 1) : s[r] = mark}) % 2 = 1},
             <<>>)

\* lines 49-51: re.sub('\.+', '.', line) and the like: of each run of the mark
\* the first is kept
Squash(s, mark) ==
  SubChar(s, {p \in 1..Len(s) : s[p] = mark /\ At(s, p - 1) = mark}, <<>>)

\* line 55: re.sub('(?<=[\.\?\!])[ \,]', '\n', line)
Sub55(s) ==
  SubChar(s, {p \in 1..Len(s) : /\ s[p] \in {SPACE, COMMA}
                                /\ IsFinalMark(At(s, p - 1))},
             <<LF>>)

\* line 56: re.sub('(?<=[가-힣])[\.\?\!](?=[가-힣])', '.\n', line)
Sub56(s) ==
  SubChar(s, {p \in 1..Len(s) : /\ IsFinalMark(s[p])
                                /\ IsHangul(At(s, p - 1))
                                /\ IsHangul(At(s, p + 1))},
             <<PERIOD, LF>>)

\* str.splitlines: the pieces between line boundaries, "\r\n" being one
\* boundary, and no empty piece after a final boundary
splitlines(s) ==
  LET f[k \in 0..Len(s)] ==
        IF k = 0 THEN <<(<<>>)>>
        ELSE IF IsLineBreak(s[k])
             THEN IF s[k] = LF /\ At(s, k - 1) = CR
                  THEN f[k - 1]
                  ELSE Append(f[k - 1], <<>>)
             ELSE [f[k - 1] EXCEPT ![Len(f[k - 1])] = Append(@, s[k])]
      all == f[Len(s)]
  IN  IF all[Len(all)] = <<>> THEN SubSeq(all, 1, Len(all) - 1) ELSE all

\* str.isspace: not empty and white space only
isspace(s) == s # <<>> /\ \A p \in 1..Len(s) : IsSpace(s[p])

\* lines 41-57 on one line
SentencesOf(s) ==
  splitlines(Sub56(Sub55(Squash(Squash(Squash(
      Sub46(Sub45(Sub41(s))), PERIOD), QUESTION), EXCLAM))))

\* lines 59-65 without the space check of line 60
KeptNonEmpty(pieces) == SelectSeq(pieces, LAMBDA t : t # <<>>)

\* lines 59-65: the pieces appended to body
Kept(pieces) == SelectSeq(pieces, LAMBDA t : ~isspace(t) /\ t # <<>>)

bySentence(c) == Cat([k \in 1..Len(c) |-> Kept(SentencesOf(c[k]))])

----------------------------------------------------------------------------
(* readNumber, lines 128-177                                               *)

\* '([+-]?\d+)[\.]?\d*': the last character of the match that starts at p, 0
\* when none starts there
NumberEnd(s, p) ==
  LET d == IF s[p] \in {PLUS, MINUS} THEN p + 1 ELSE p
      e == RunEnd(s, d, {z \in 1..Len(s) : IsDigit(s[z])})
  IN  IF d > Len(s) \/ e < d THEN 0
      ELSE IF At(s, e + 1) = PERIOD THEN RunEnd(s, e + 2, {z \in 1..Len(s) : IsDigit(s[z])})
      ELSE e

\* re.finditer('([+-]?\d+)[\.]?\d*', line): the spans
NumberSpans(s) == Spans([p \in 1..Len(s) |-> NumberEnd(s, p)])

\* '\d+': the maximal runs of digits
DigitRuns(s) ==
  Spans([p \in 1..Len(s) |->
           IF IsDigit(s[p]) THEN RunEnd(s, p, {z \in 1..Len(s) : IsDigit(s[z])}) ELSE 0])

\* '\d+(?=\.)': the digit runs in front of a period
DigitRunsBeforePeriod(s) ==
  Spans([p \in 1..Len(s) |->
           IF IsDigit(s[p]) /\ At(s, RunEnd(s, p, {z \in 1..Len(s) : IsDigit(s[z])}) + 1) = PERIOD
           THEN RunEnd(s, p, {z \in 1..Len(s) : IsDigit(s[z])}) ELSE 0])

\* lines 162-171: the syllable of an ASCII digit
DigitSyllable(c) ==
  CASE c = 48 -> <<50689>>
    [] c = 49 -> <<51068>>
    [] c = 50 -> <<51060>>
    [] c = 51 -> <<49340>>
    [] c = 52 -> <<49324>>
    [] c = 53 -> <<50724>>
    [] c = 54 -> <<50977>>
    [] c = 55 -> <<52832>>
    [] c = 56 -> <<54036>>
    [] c = 57 -> <<44396>>

\* line 148: re.search('\.', num) is None
IsIntegerToken(num) == \A p \in 1..Len(num) : num[p] # PERIOD

\* lines 150-152: numint is what NumberWord(int(...)).read() returned
ReadInteger(num, numint) == SubSpans(num, DigitRuns(num), numint)

\* lines 156-171
ReadFloating(num, numint) ==
  LET intread == SubSpans(num, DigitRunsBeforePeriod(num), numint)
      pointread == SubChar(intread,
                           {p \in 1..Len(intread) : intread[p] = PERIOD},
                           <<JEOM>>)
  IN  Cat([p \in 1..Len(pointread) |->
             IF IsAsciiDigit(pointread[p]) THEN DigitSyllable(pointread[p])
             ELSE <<pointread[p]>>])

\* lines 148-171: the rewritten token
ReadToken(num, numint) ==
  IF IsIntegerToken(num) THEN ReadInteger(num, numint)
  ELSE ReadFloating(num, numint)

----------------------------------------------------------------------------
(* readABC, lines 189-241                                                  *)

\* '[A-Z](?=[^a-z])'
ABCSpans(s) ==
  Spans([p \in 1..Len(s) |->
           IF IsUpper(s[p]) /\ p < Len(s) /\ ~IsLower(s[p + 1])
           THEN p ELSE 0])

\* lines 209-234: the name of a capital letter
ABCName(c) ==
  CASE c = 65 -> <<50640, 51060>>
    [] c = 66 -> <<48708>>
    [] c = 67 -> <<50472>>
    [] c = 68 -> <<46356>>
    [] c = 69 -> <<51060>>
    [] c = 70 -> <<50640, 54532>>
    [] c = 71 -> <<51648>>
    [] c = 72 -> <<50640, 51060, 52824>>
    [] c = 73 -> <<50500, 51060>>
    [] c = 74 -> <<51228, 51060>>
    [] c = 75 -> <<52992, 51060>>
    [] c = 76 -> <<50648>>
    [] c = 77 -> <<50656>>
    [] c = 78 -> <<50644>>
    [] c = 79 -> <<50724>>
    [] c = 80 -> <<54588>>
    [] c = 81 -> <<53328>>
    [] c = 82 -> <<50508>>
    [] c = 83 -> <<50640, 49828>>
    [] c = 84 -> <<54000>>
    [] c = 85 -> <<50976>>
    [] c = 86 -> <<48652, 51060>>
    [] c = 87 -> <<45908, 48660, 50976>>
    [] c = 88 -> <<50641, 49828>>
    [] c = 89 -> <<50752, 51060>>
    [] c = 90 -> <<51648>>
    [] OTHER -> <<c>>

\* lines 209-234 on the matched text
ReadCapitals(ABC) ==
  Cat([p \in 1..Len(ABC) |-> ABCName(ABC[p])])

----------------------------------------------------------------------------
(* readAlphabet, lines 244-270                                             *)

\* '[A-Za-z]+'
AlphabetSpans(s) ==
  Spans([p \in 1..Len(s) |->
           IF IsLatin(s[p]) THEN RunEnd(s, p, {z \in 1..Len(s) : IsLatin(s[z])}) ELSE 0])

----------------------------------------------------------------------------
(* readHangulLetter, lines 283-301                                         *)

\* the consonants the sixteen substitutions name
NamedJamo == {12593, 12596, 12599, 12601, 12609, 12610, 12613, 12615,
              12616, 12618, 12622, 12594, 12600, 12611, 12614, 12617}

JamoName(c) ==
  CASE c = 12593 -> <<44592, 50669>>
    [] c = 12596 -> <<45768, 51008>>
    [] c = 12599 -> <<46356, 44543>>
    [] c = 12601 -> <<47532, 51012>>
    [] c = 12609 -> <<48120, 51020>>
    [] c = 12610 -> <<48708, 51021>>
    [] c = 12613 -> <<49884, 50743>>
    [] c = 12615 -> <<51060, 51025>>
    [] c = 12616 -> <<51648, 51026>>
    [] c = 12618 -> <<52824, 51027>>
    [] c = 12622 -> <<55176, 51031>>
    [] c = 12594 -> <<49933, 44592, 50669>>
    [] c = 12600 -> <<49933, 46356, 44543>>
    [] c = 12611 -> <<49933, 48708, 51021>>
    [] c = 12614 -> <<49933, 49884, 50743>>
    [] c = 12617 -> <<49933, 51648, 51026>>

readHangulLetter(s) ==
  Cat([p \in 1..Len(s) |->
         IF s[p] \in NamedJamo THEN JamoName(s[p]) ELSE <<s[p]>>])

----------------------------------------------------------------------------
(* readHanja, lines 180-186                                                *)

\* '[가-힣]+[一-龥豈-龎]+' is found in the line
HangulThenHanja(s) ==
  \E p \in 1..Len(s) : IsHangul(s[p]) /\ IsHanja(At(s, p + 1))

\* line 183: re.sub('[一-龥豈-龎]+', '', line)
DeleteHanja(s) == SubChar(s, {p \in 1..Len(s) : IsHanja(s[p])}, <<>>)

\* line 185: hanja.translate(line, 'substitution'), an external translator: it
\* puts the reading it chose, r, in the place of each logograph
Translated(s, r) == SubChar(s, {p \in 1..Len(s) : IsHanja(s[p])}, r)

----------------------------------------------------------------------------
(* removeNonHangul, lines 278-280                                          *)

\* re.sub('[A-Za-z0-9]*', '', line): a removal that lists what goes in place of
\* what stays
RemoveLatinAndDigits(s) ==
  SubChar(s, {p \in 1..Len(s) : IsLatin(s[p]) \/ IsAsciiDigit(s[p])}, <<>>)

\* re.sub('[^가-힣\s]*', '', line)
removeNonHangul(s) ==
  SubChar(s, {p \in 1..Len(s) : ~(IsHangul(s[p]) \/ IsSpace(s[p]))}, <<>>)

----------------------------------------------------------------------------
(* normalize, lines 70-125: the substitutions of lines 74-101              *)

\* [\(\[<〈《【〔]
IsOpener(c) == c \in {40, 91, 60, 12296, 12298, 12304, 12308}
\* [\)\]>〉》】〕]
IsCloser(c) == c \in {41, 93, 62, 12297, 12299, 12305, 12309}
\* '.' of a pattern without DOTALL: every character but the line feed
IsDot(c) == c # LF
\* \w on str: letters, digits and the underscore.  Of the letters of Unicode
\* the Latin ones, the Korean syllables and consonants and the logographs are
\* listed.
IsWord(c) == \/ IsLatin(c) \/ IsDigit(c) \/ c = 95
             \/ IsHangul(c) \/ IsJamo(c) \/ IsHanja(c)
\* [\w\.]
IsWordOrPeriod(c) == IsWord(c) \/ c = PERIOD

\* '^\s*[\(\[<〈《【〔]*\s*': the position after the bullet's opening
AfterOpening(s) ==
  LET a == RunEnd(s, 1, {z \in 1..Len(s) : IsSpace(s[z])})
      b == RunEnd(s, a + 1, {z \in 1..Len(s) : IsOpener(s[z])})
  IN  RunEnd(s, b + 1, {z \in 1..Len(s) : IsSpace(s[z])}) + 1

\* line 74: re.sub('^\s*[\(\[<〈《【〔]*\s*\d+[\)\.\]>〉》】〕](?=\D+)', '', line)
Sub74(s) ==
  LET p == AfterOpening(s)
      d == RunEnd(s, p, {z \in 1..Len(s) : IsDigit(s[z])})
  IN  IF /\ d >= p
         /\ (IsCloser(At(s, d + 1)) \/ At(s, d + 1) = PERIOD)
         /\ d + 2 <= Len(s)
         /\ ~IsDigit(s[d + 2])
      THEN Slice(s, d + 2, Len(s))
      ELSE s

\* the first position q >= p with s[q] = c such that '.' matches everything
\* in p..q-1; 0 when there is none
LazyTo(s, p, c) ==
  LET n == Len(s)
      f[q \in p..(n + 1)] ==
        IF q > n THEN 0
        ELSE IF s[q] = c THEN q
        ELSE IF IsDot(s[q]) THEN f[q + 1]
        ELSE 0
  IN  IF p > n + 1 THEN 0 ELSE f[p]

\* '(\(예:.*?\)|\[예:.*?\]|^[ \t]*예:.*?)': the end of the match starting at p
ExampleEnd(s, p) ==
  LET blank == RunEnd(s, 1, {z \in 1..Len(s) : s[z] \in {SPACE, TAB}})
  IN  IF s[p] = LPAREN /\ At(s, p + 1) = YE /\ At(s, p + 2) = COLON
         /\ LazyTo(s, p + 3, RPAREN) > 0
      THEN LazyTo(s, p + 3, RPAREN)
      ELSE IF s[p] = LBRACKET /\ At(s, p + 1) = YE /\ At(s, p + 2) = COLON
              /\ LazyTo(s, p + 3, RBRACKET) > 0
      THEN LazyTo(s, p + 3, RBRACKET)
      ELSE IF p = 1 /\ At(s, blank + 1) = YE /\ At(s, blank + 2) = COLON
      THEN blank + 2
      ELSE 0

\* line 80
Sub80(s) ==
  SubSpans(s, Spans([p \in 1..Len(s) |-> ExampleEnd(s, p)]), <<>>)

\* line 81: re.sub('^\s*[\(\[<〈《【〔]*\s*[ㄱ-ㅎ가-힣][\)\]>〉》】〕]\s*(?=[가-힣]*)',
\*                 '', line)
Sub81(s) ==
  LET p == AfterOpening(s)
  IN  IF (IsJamo(At(s, p)) \/ IsHangul(At(s, p))) /\ IsCloser(At(s, p + 1))
      THEN Slice(s, RunEnd(s, p + 2, {z \in 1..Len(s) : IsSpace(s[z])}) + 1, Len(s))
      ELSE s

\* the first position q >= p with s[q] = c; 0 when there is none
FirstOf(s, p, c) ==
  LET hits == {q \in p..Len(s) : s[q] = c}
  IN  IF hits = {} THEN 0 ELSE CHOOSE q \in hits : \A r \in hits : q <= r

\* line 82: re.sub('\([^\)]*[^\)]+\)', '', line)
Sub82(s) ==
  SubSpans(s,
           Spans([p \in 1..Len(s) |->
                    IF s[p] = LPAREN /\ FirstOf(s, p + 1, RPAREN) > p + 1
                    THEN FirstOf(s, p + 1, RPAREN) ELSE 0]),
           <<>>)

\* the schemes of line 84, 'https?' and 'ftps?' written out
Schemes ==
  { <<102, 105, 108, 101, 58, 47, 47>>,
    <<103, 111, 112, 104, 101, 114, 58, 47, 47>>,
    <<110, 101, 119, 115, 58, 47, 47>>,
    <<110, 110, 116, 112, 58, 47, 47>>,
    <<116, 101, 108, 110, 101, 116, 58, 47, 47>>,
    <<104, 116, 116, 112, 58, 47, 47>>,
    <<104, 116, 116, 112, 115, 58, 47, 47>>,
    <<102, 116, 112, 58, 47, 47>>,
    <<102, 116, 112, 115, 58, 47, 47>>,
    <<115, 102, 116, 112, 58, 47, 47>>,
    <<119, 119, 119, 46>> }

\* [a-z0-9]
IsDomainChar(c) == IsLower(c) \/ IsAsciiDigit(c)
\* [a-z0-9-]
IsLabelChar(c) == IsDomainChar(c) \/ c = MINUS
\* [^ㄱ-힣\)\]\.\,\'\"\s]
IsAddressChar(c) ==
  ~(\/ c >= 12593 /\ c <= 55203
    \/ c \in {RPAREN, RBRACKET, PERIOD, COMMA, 39, 34}
    \/ IsSpace(c))

\* '([a-z0-9-]+\.)+[a-z0-9]{2,4}[^...]*' from position p on: the end of the
\* match, 0 when there is none.  The groups are taken greedily and given back
\* one at a time until two domain characters follow.
DomainEnd(s, p) ==
  LET n == Len(s)
      ok(q) == IsDomainChar(At(s, q)) /\ IsDomainChar(At(s, q + 1))
      top(q) ==
        LET e == RunEnd(s, q, {z \in 1..Len(s) : IsDomainChar(s[z])})
            m == IF e - q + 1 > 4 THEN q + 3 ELSE e
        IN  RunEnd(s, m + 1, {z \in 1..Len(s) : IsAddressChar(s[z])})
      f[q \in p..(n + 1)] ==
        \* the end of the match with at least one group from q on
        LET e == RunEnd(s, q, {z \in 1..Len(s) : IsLabelChar(s[z])})
        IN  IF q <= n /\ e >= q /\ At(s, e + 1) = PERIOD
            THEN LET more == f[e + 2]
                 IN  IF more > 0 THEN more
                     ELSE IF ok(e + 2) THEN top(e + 2) ELSE 0
            ELSE 0
  IN  IF p > n THEN 0 ELSE f[p]

\* line 84: the end of the web address starting at p
AddressEnd(s, p) ==
  LET heads == {h \in Schemes :
                  p + Len(h) - 1 <= Len(s) /\ SubSeq(s, p, p + Len(h) - 1) = h}
      ends == {DomainEnd(s, p + Len(h)) : h \in heads} \ {0}
  IN  IF ends = {} THEN 0 ELSE CHOOSE e \in ends : TRUE

Sub84(s) ==
  SubSpans(s, Spans([p \in 1..Len(s) |-> AddressEnd(s, p)]), <<>>)

\* re.sub('[...]*', '', line): every character of the class is deleted
DeleteAll(s, C) == SubChar(s, {p \in 1..Len(s) : s[p] \in C}, <<>>)

\* line 86: re.sub('[ㅡ-]*', '', line)
Sub86(s) == DeleteAll(s, {EU, MINUS})

\* line 87: re.sub('[\`\'\"＂‘’“”]*', '', line)
Sub87(s) == DeleteAll(s, {96, 39, 34, 65282, 8216, 8217, 8220, 8221})

\* '【.*?기자[ \t]*】': the end of the match starting at p
BylineEnd(s, p) ==
  LET n == Len(s)
      close(q) == RunEnd(s, q + 2, {z \in 1..Len(s) : s[z] \in {SPACE, TAB}}) + 1
      f[q \in (p + 1)..(n + 1)] ==
        IF q > n THEN 0
        ELSE IF s[q] = GI /\ At(s, q + 1) = JA
                /\ At(s, close(q)) = RLENTICULAR
        THEN close(q)
        ELSE IF IsDot(s[q]) THEN f[q + 1]
        ELSE 0
  IN  IF s[p] = LLENTICULAR THEN f[p + 1] ELSE 0

\* line 88
Sub88(s) ==
  SubSpans(s, Spans([p \in 1..Len(s) |-> BylineEnd(s, p)]), <<>>)

\* line 89: re.sub('〔.*?〕', '', line)
Sub89(s) ==
  SubSpans(s,
           Spans([p \in 1..Len(s) |->
                    IF s[p] = LTORTOISE THEN LazyTo(s, p + 1, RTORTOISE)
                    ELSE 0]),
           <<>>)

\* line 90: re.sub('[\[〈〉《》「」『』{}\]]*', '', line)
Sub90(s) ==
  DeleteAll(s, {91, 12296, 12297, 12298, 12299, 12300, 12301, 12302, 12303,
                123, 125, 93})

\* '(\w+[\w\.]*)@(\w+[\w\.]*)\.([A-Za-z]+)': the end of the match starting at p
MailEnd(s, p) ==
  LET at == RunEnd(s, p, {z \in 1..Len(s) : IsWordOrPeriod(s[z])}) + 1
      r == RunEnd(s, at + 1, {z \in 1..Len(s) : IsWordOrPeriod(s[z])})
      dots == {d \in (at + 2)..r : s[d] = PERIOD /\ IsLatin(At(s, d + 1))}
      d == CHOOSE x \in dots : \A y \in dots : y <= x
  IN  IF IsWord(s[p]) /\ At(s, at) = AT /\ IsWord(At(s, at + 1)) /\ dots # {}
      THEN RunEnd(s, d + 1, {z \in 1..Len(s) : IsLatin(s[z])})
      ELSE 0

\* line 91
Sub91(s) ==
  SubSpans(s, Spans([p \in 1..Len(s) |-> MailEnd(s, p)]), <<>>)

\* line 92: re.sub('\#', '', line)
Sub92(s) == DeleteAll(s, {SHARP})

\* '(?<=[가-힣])[A-Za-z]': the end of the match starting at p of a pattern that
\* takes one letter in place of the run
GluedFirst(s, p) ==
  IF IsHangul(At(s, p - 1)) /\ IsLatin(s[p]) THEN p ELSE 0

\* '(?<=[가-힣])[A-Za-z]+[ ]?[A-Za-z]*': the end of the match starting at p
GluedEnd(s, p) ==
  LET e == RunEnd(s, p, {z \in 1..Len(s) : IsLatin(s[z])})
  IN  IF IsHangul(At(s, p - 1)) /\ IsLatin(s[p])
      THEN IF At(s, e + 1) = SPACE THEN RunEnd(s, e + 2, {z \in 1..Len(s) : IsLatin(s[z])}) ELSE e
      ELSE 0

\* line 93
Sub93(s) ==
  SubSpans(s, Spans([p \in 1..Len(s) |-> GluedEnd(s, p)]), <<>>)

\* line 96: re.sub('[=:;]', '\n', line)
Sub96(s) ==
  SubChar(s, {p \in 1..Len(s) : s[p] \in {EQUALS, COLON, SEMICOLON}}, <<LF>>)

\* line 99: re.sub('·', ' ', line)
Sub99(s) ==
  SubChar(s, {p \in 1..Len(s) : s[p] = MIDDLEDOT}, <<SPACE>>)

\* line 100: re.sub('(?<=[가-힣A-Za-z])~(?=[가-힣A-Za-z]+)', ' ', line)
Sub100(s) ==
  SubChar(s, {p \in 1..Len(s) :
                /\ s[p] = TILDE
                /\ (IsHangul(At(s, p - 1)) \/ IsLatin(At(s, p - 1)))
                /\ (IsHangul(At(s, p + 1)) \/ IsLatin(At(s, p + 1)))},
             <<SPACE>>)

\* line 101: re.sub('→', ' ', line)
Sub101(s) ==
  SubChar(s, {p \in 1..Len(s) : s[p] = ARROW}, <<SPACE>>)

\* lines 80-92
Deleted(s) ==
  Sub92(Sub91(Sub90(Sub89(Sub88(Sub87(Sub86(Sub84(Sub82(Sub81(Sub80(s)))))))))))

----------------------------------------------------------------------------
(* Bounds and inputs                                                       *)

\* longest text given to bySentence
MaxSegLen == 4
\* longest line given to a reading pass on its own
MaxLineLen == 5
\* longest text given to normalize and to Knormalize
MaxNormLen == 3
\* longest string an external reader returns
MaxRead == 1

\* The lines of a text in which NoChar marks the ends of lines
Lines(t) ==
  LET f[k \in 0..Len(t)] ==
        IF k = 0 THEN <<(<<>>)>>
        ELSE IF t[k] = NoChar THEN Append(f[k - 1], <<>>)
        ELSE [f[k - 1] EXCEPT ![Len(f[k - 1])] = Append(@, t[k])]
  IN  f[Len(t)]

\* The corpora of at most n characters and line ends in all
Corpora(C, n) == {Lines(t) : t \in Strings(C \cup {NoChar}, n)}

\* line 307: the lines a text file yields, each with its line feed
FileLines(t) ==
  LET f[k \in 0..Len(t)] ==
        IF k = 0 THEN <<(<<>>)>>
        ELSE LET open == [f[k - 1] EXCEPT ![Len(f[k - 1])] = Append(@, t[k])]
             IN  IF t[k] = LF THEN Append(open, <<>>) ELSE open
      all == f[Len(t)]
  IN  IF all[Len(all)] = <<>> THEN SubSeq(all, 1, Len(all) - 1) ELSE all

SegChars == {GA, CapA, SmallA, PERIOD, QUESTION, EXCLAM, SPACE, COMMA, ELLIPSIS}
NumberChars == {ONE, FullwidthOne, PERIOD, MINUS, GA}
LetterChars == {CapA, CapB, SmallA, GA, SPACE}
JamoChars == {GIYEOK, KIEUK, SSANGGIYEOK, GA, SmallA}
NormChars == {GA, SmallA, CapA, SPACE, COLON, ONE, RPAREN, HAN}

\* What NumberWord(n).read() may return when it returns no digit
NumberReadings == Strings({GA, PERIOD, MINUS}, MaxRead)
\* What Loanword(w, lang).read() may return when it returns no Latin letter
LoanReadings == Strings({GA, SPACE}, MaxRead)
\* What NumberWord(n).read() and hanja.translate may return when nothing is
\* known of them: syllables and letters, which the later passes read again
AnyReadings == Strings({GA, SmallA}, MaxRead)
\* What Loanword(w, lang).read() may return when nothing is known of it:
\* syllables and white space
AnyLoanReadings == Strings({GA, SPACE}, MaxRead)

----------------------------------------------------------------------------
(* The rescan loops                                                        *)

\* lines 129-135: the scan that fixes the number of iterations
ScanNumber ==
  /\ pc = "readNumber"
  /\ prev' = line
  /\ total' = Len(NumberSpans(line))
  /\ i' = 0
  /\ found' = 0
  /\ pc' = "readNumber.loop"
  /\ UNCHANGED <<corpus, body, line, input>>

\* lines 136-176: one iteration; numlist[0] of an empty list leaves num and
\* numidx[0] undefined and the function raises
RewriteNumber(readings) ==
  /\ pc = "readNumber.loop"
  /\ i < total
  /\ LET numidx == NumberSpans(line)
     IN  IF numidx = <<>>
         THEN pc' = "raised" /\ UNCHANGED <<line, i, found>>
         ELSE /\ \E numint \in readings :
                   LET num == Slice(line, numidx[1][1], numidx[1][2])
                   IN  line' = replaceSubstring(line, ReadToken(num, numint),
                                                numidx[1])
              /\ found' = Len(numidx)
              /\ i' = i + 1
              /\ pc' = pc
  /\ UNCHANGED <<corpus, body, total, prev, input>>

\* line 177
ReturnNumber(next) ==
  /\ pc = "readNumber.loop"
  /\ i = total
  /\ pc' = next
  /\ UNCHANGED <<corpus, body, line, total, i, found, prev, input>>

\* lines 190-196
ScanABC ==
  /\ pc = "readABC"
  /\ prev' = line
  /\ total' = Len(ABCSpans(line))
  /\ i' = 0
  /\ found' = 0
  /\ pc' = "readABC.loop"
  /\ UNCHANGED <<corpus, body, line, input>>

\* lines 197-239
RewriteABC ==
  /\ pc = "readABC.loop"
  /\ i < total
  /\ LET ABCidx == ABCSpans(line)
     IN  IF ABCidx = <<>>
         THEN pc' = "raised" /\ UNCHANGED <<line, i, found>>
         ELSE /\ LET ABC == Slice(line, ABCidx[1][1], ABCidx[1][2])
                 IN  line' = replaceSubstring(line, ReadCapitals(ABC), ABCidx[1])
              /\ found' = Len(ABCidx)
              /\ i' = i + 1
              /\ pc' = pc
  /\ UNCHANGED <<corpus, body, total, prev, input>>

\* line 241
ReturnABC(next) ==
  /\ pc = "readABC.loop"
  /\ i = total
  /\ pc' = next
  /\ UNCHANGED <<corpus, body, line, total, i, found, prev, input>>

\* lines 245-251
ScanAlphabet ==
  /\ pc = "readAlphabet"
  /\ prev' = line
  /\ total' = Len(AlphabetSpans(line))
  /\ i' = 0
  /\ found' = 0
  /\ pc' = "readAlphabet.loop"
  /\ UNCHANGED <<corpus, body, line, input>>

\* lines 252-269
RewriteAlphabet(readings) ==
  /\ pc = "readAlphabet.loop"
  /\ i < total
  /\ LET alphaidx == AlphabetSpans(line)
     IN  IF alphaidx = <<>>
         THEN pc' = "raised" /\ UNCHANGED <<line, i, found>>
         ELSE /\ \E alpha \in readings :
                   line' = replaceSubstring(line, alpha, alphaidx[1])
              /\ found' = Len(alphaidx)
              /\ i' = i + 1
              /\ pc' = pc
  /\ UNCHANGED <<corpus, body, total, prev, input>>

\* line 270
ReturnAlphabet(next) ==
  /\ pc = "readAlphabet.loop"
  /\ i = total
  /\ pc' = next
  /\ UNCHANGED <<corpus, body, line, total, i, found, prev, input>>

\* lines 283-301
ReadHangulLetter(next) ==
  /\ pc = "readHangulLetter"
  /\ prev' = line
  /\ line' = readHangulLetter(line)
  /\ pc' = next
  /\ UNCHANGED <<corpus, body, total, i, found, input>>

\* lines 180-186
ReadHanja(readings) ==
  /\ pc = "readHanja"
  /\ prev' = line
  /\ IF \E p \in 1..Len(line) : IsHanja(line[p])
     THEN IF HangulThenHanja(line)
          THEN line' = DeleteHanja(line)
          ELSE \E r \in readings : line' = Translated(line, r)
     ELSE line' = line
  /\ pc' = "readABC"
  /\ UNCHANGED <<corpus, body, total, i, found, input>>

----------------------------------------------------------------------------
(* The reading passes run on their own                                     *)

InitRead ==
  /\ \/ pc = "readNumber" /\ line \in Strings(NumberChars, MaxLineLen)
     \/ pc = "readABC" /\ line \in Strings(LetterChars, MaxLineLen)
     \/ pc = "readAlphabet" /\ line \in Strings(LetterChars, MaxLineLen)
     \/ pc = "readHangulLetter" /\ line \in Strings(JamoChars, MaxLineLen)
  /\ input = line
  /\ prev = <<>>
  /\ corpus = <<>>
  /\ body = <<>>
  /\ total = 0
  /\ i = 0
  /\ found = 0

NextRead ==
  \/ ScanNumber
  \/ RewriteNumber(NumberReadings)
  \/ ReturnNumber("readNumber.ret")
  \/ ScanABC
  \/ RewriteABC
  \/ ReturnABC("readABC.ret")
  \/ ScanAlphabet
  \/ RewriteAlphabet(LoanReadings)
  \/ ReturnAlphabet("readAlphabet.ret")
  \/ ReadHangulLetter("readHangulLetter.ret")

SpecRead == InitRead /\ [][NextRead]_vars

----------------------------------------------------------------------------
(* bySentence run on a corpus, and again on what it returned               *)

InitSeg ==
  /\ pc = "bySentence"
  /\ corpus \in Corpora(SegChars, MaxSegLen)
  /\ input = corpus
  /\ prev = <<>>
  /\ body = <<>>
  /\ line = <<>>
  /\ total = 0
  /\ i = 0
  /\ found = 0

\* lines 36-67
Segment ==
  /\ pc = "bySentence"
  /\ prev' = corpus
  /\ body' = bySentence(corpus)
  /\ pc' = "segmented"
  /\ UNCHANGED <<corpus, line, total, i, found, input>>

\* lines 36-67, given what they returned
SegmentAgain ==
  /\ pc = "segmented"
  /\ prev' = body
  /\ body' = bySentence(body)
  /\ pc' = "resegmented"
  /\ UNCHANGED <<corpus, line, total, i, found, input>>

NextSeg == Segment \/ SegmentAgain

SpecSeg == InitSeg /\ [][NextSeg]_vars

----------------------------------------------------------------------------
(* normalize, lines 70-125, a step at a time                               *)

\* line 72: the next line of the corpus
NextLine ==
  /\ pc = "normalize"
  /\ corpus # <<>>
  /\ line' = Head(corpus)
  /\ corpus' = Tail(corpus)
  /\ pc' = "line74"
  /\ UNCHANGED <<body, total, i, found, prev, input>>

\* line 74
NumberDeletion ==
  /\ pc = "line74"
  /\ prev' = line
  /\ line' = Sub74(line)
  /\ pc' = "readNumber"
  /\ UNCHANGED <<corpus, body, total, i, found, input>>

\* lines 80-92
Deletion ==
  /\ pc = "line80"
  /\ prev' = line
  /\ line' = Deleted(line)
  /\ pc' = "line93"
  /\ UNCHANGED <<corpus, body, total, i, found, input>>

\* line 93
GluedLatinDeletion ==
  /\ pc = "line93"
  /\ prev' = line
  /\ line' = Sub93(line)
  /\ pc' = "line96"
  /\ UNCHANGED <<corpus, body, total, i, found, input>>

\* line 96
NewlineSubstitution ==
  /\ pc = "line96"
  /\ prev' = line
  /\ line' = Sub96(line)
  /\ pc' = "line99"
  /\ UNCHANGED <<corpus, body, total, i, found, input>>

\* lines 99-101
WhitespaceSubstitution ==
  /\ pc = "line99"
  /\ prev' = line
  /\ line' = Sub101(Sub100(Sub99(line)))
  /\ pc' = "readHangulLetter"
  /\ UNCHANGED <<corpus, body, total, i, found, input>>

\* line 116
RemoveNonHangul ==
  /\ pc = "line116"
  /\ prev' = line
  /\ line' = removeNonHangul(line)
  /\ pc' = "line118"
  /\ UNCHANGED <<corpus, body, total, i, found, input>>

\* lines 118-123
AppendLine ==
  /\ pc = "line118"
  /\ body' = IF ~isspace(line) /\ line # <<>> THEN Append(body, line) ELSE body
  /\ pc' = "normalize"
  /\ UNCHANGED <<corpus, line, total, i, found, prev, input>>

\* line 125
ReturnBody(next) ==
  /\ pc = "normalize"
  /\ corpus = <<>>
  /\ pc' = next
  /\ UNCHANGED <<corpus, body, line, total, i, found, prev, input>>

\* lines 72-123 for one line of the corpus
NormalizeLine ==
  \/ NextLine
  \/ NumberDeletion
  \/ ScanNumber
  \/ RewriteNumber(AnyReadings)
  \/ ReturnNumber("line80")
  \/ Deletion
  \/ GluedLatinDeletion
  \/ NewlineSubstitution
  \/ WhitespaceSubstitution
  \/ ReadHangulLetter("readHanja")
  \/ ReadHanja(AnyReadings)
  \/ ScanABC
  \/ RewriteABC
  \/ ReturnABC("readAlphabet")
  \/ ScanAlphabet
  \/ RewriteAlphabet(AnyLoanReadings)
  \/ ReturnAlphabet("line116")
  \/ RemoveNonHangul
  \/ AppendLine

InitNorm ==
  /\ pc = "normalize"
  /\ corpus \in Corpora(NormChars, MaxNormLen)
  /\ input = <<>>
  /\ prev = <<>>
  /\ body = <<>>
  /\ line = <<>>
  /\ total = 0
  /\ i = 0
  /\ found = 0

NextNorm == NormalizeLine \/ ReturnBody("normalize.ret")

SpecNorm == InitNorm /\ [][NextNorm]_vars

----------------------------------------------------------------------------
(* Knormalize, lines 304-342                                               *)

\* utils.tightenString, which is not part of normalize.py: each line without
\* its leading and trailing white space
tightenString(b) ==
  [k \in 1..Len(b) |->
     LET t == b[k]
         first == RunEnd(t, 1, {z \in 1..Len(t) : IsSpace(t[z])}) + 1
         blanks == {p \in 1..Len(t) : \A q \in p..Len(t) : IsSpace(t[q])}
         last == IF blanks = {} THEN Len(t)
                 ELSE (CHOOSE p \in blanks : \A q \in blanks : p <= q) - 1
     IN  Slice(t, first, last)]

\* lines 307-312
Step1 ==
  /\ pc = "Knormalize"
  /\ prev' = corpus
  /\ body' = bySentence(corpus)
  /\ pc' = "step1"
  /\ UNCHANGED <<corpus, line, total, i, found, input>>

\* lines 315-316
Step2 ==
  /\ pc = "step1"
  /\ prev' = body
  /\ body' = tightenString(body)
  /\ pc' = "step2"
  /\ UNCHANGED <<corpus, line, total, i, found, input>>

\* lines 319-320
Step3 ==
  /\ pc = "step2"
  /\ prev' = body
  /\ body' = bySentence(body)
  /\ pc' = "step3"
  /\ UNCHANGED <<corpus, line, total, i, found, input>>

\* line 323: normalize is called with body for its corpus
Step4 ==
  /\ pc = "step3"
  /\ prev' = body
  /\ corpus' = body
  /\ body' = <<>>
  /\ pc' = "normalize"
  /\ UNCHANGED <<line, total, i, found, input>>

\* lines 327-328
Step5 ==
  /\ pc = "step4"
  /\ prev' = body
  /\ body' = bySentence(body)
  /\ pc' = "step5"
  /\ UNCHANGED <<corpus, line, total, i, found, input>>

\* lines 331-332
Step6 ==
  /\ pc = "step5"
  /\ prev' = body
  /\ body' = tightenString(body)
  /\ pc' = "step6"
  /\ UNCHANGED <<corpus, line, total, i, found, input>>

\* line 342: body is handed to utils.writefile
WriteFile ==
  /\ pc = "step6"
  /\ pc' = "written"
  /\ UNCHANGED <<corpus, body, line, total, i, found, prev, input>>

InitK ==
  /\ pc = "Knormalize"
  /\ corpus \in {FileLines(t) : t \in Strings(NormChars \cup {LF}, MaxNormLen)}
  /\ input = <<>>
  /\ prev = <<>>
  /\ body = <<>>
  /\ line = <<>>
  /\ total = 0
  /\ i = 0
  /\ found = 0

NextK ==
  \/ Step1
  \/ Step2
  \/ Step3
  \/ Step4
  \/ NormalizeLine
  \/ ReturnBody("step4")
  \/ Step5
  \/ Step6
  \/ WriteFile

SpecK == InitK /\ [][NextK]_vars

----------------------------------------------------------------------------
(* Claims about bySentence                                                 *)

\* A capital letter with a period, or an ellipsis, right after it
CapitalBeforePeriod(s) ==
  \E p \in 1..Len(s) : IsUpper(s[p]) /\ At(s, p + 1) \in {PERIOD, ELLIPSIS}

MarkBetweenSyllables(s, p) ==
  IsFinalMark(s[p]) /\ IsHangul(At(s, p - 1)) /\ IsHangul(At(s, p + 1))

\* C8 as stated: where a final mark stands directly between two syllables,
\* bySentence breaks the line after it and the piece before the break ends with
\* that same mark.
C8_MarkKept ==
  pc = "segmented" =>
    \A k \in 1..Len(input) : \A p \in 1..Len(input[k]) :
      MarkBetweenSyllables(input[k], p) =>
        \E j \in 1..Len(body) : body[j][Len(body[j])] = input[k][p]

----------------------------------------------------------------------------
(* Claims about normalize and Knormalize                                   *)

\* A line of hangul syllables and white space that is neither empty nor white
\* space only
IsSentence(s) ==
  /\ s # <<>>
  /\ ~isspace(s)
  /\ \A p \in 1..Len(s) : IsHangul(s[p]) \/ IsSpace(s[p])

\* C1: every sentence of the list normalize returns is non-empty, is not white
\* space only, and holds hangul syllables and white space only, whatever the
\* external readers returned.
C1_OnlyHangul ==
  pc = "normalize.ret" => \A k \in 1..Len(body) : IsSentence(body[k])

\* normalize has returned, and the last sentence of the list is a line that
\* reached line 116 with a character in it which is neither a syllable nor
\* white space.
C1_Witness ==
  /\ pc = "normalize.ret"
  /\ body # <<>>
  /\ body[Len(body)] = line
  /\ line # prev
  /\ \E p \in 1..Len(prev) : ~(IsHangul(prev[p]) \/ IsSpace(prev[p]))

\* The letters of the runs of Latin letters of s that follow a hangul syllable
\* directly or, if gap, with one space between
LettersAfterHangul(s, gap) ==
  {p \in 1..Len(s) :
     \E q \in 1..p :
       /\ \A r \in q..p : IsLatin(s[r])
       /\ \/ IsHangul(At(s, q - 1))
          \/ gap /\ At(s, q - 1) = SPACE /\ IsHangul(At(s, q - 2))}

\* The number of Latin letters of s
Letters(s) == Cardinality({p \in 1..Len(s) : IsLatin(s[p])})

\* C5 as stated: line 93 deletes every run of Latin letters that follows a
\* hangul syllable with zero or one space between: none of them is left in the
\* line handed on towards readABC and readAlphabet.
C5_GluedOrSpacedDeleted ==
  pc = "line96" =>
    /\ LettersAfterHangul(line, TRUE) = {}
    /\ Letters(line) <= Letters(prev) - Cardinality(LettersAfterHangul(prev, TRUE))

\* C5 amended: line 93 deletes every run of Latin letters that follows a hangul
\* syllable directly, with no space between: none of them is left in the line
\* handed on towards readABC and readAlphabet.
C5_GluedDeleted ==
  pc = "line96" =>
    /\ LettersAfterHangul(line, FALSE) = {}
    /\ Letters(line) <= Letters(prev) - Cardinality(LettersAfterHangul(prev, FALSE))

\* Line 93 was given a line with Latin letters right after a syllable and has
\* rewritten it.
C5_Witness ==
  /\ pc = "line96"
  /\ LettersAfterHangul(prev, FALSE) # {}
  /\ line # prev

\* C7: what Knormalize hands to the writer holds no empty line, no line of
\* white space only and no line with a line break in it, and every character
\* of every line is a hangul syllable or white space.
C7_CleanOutput ==
  pc = "written" =>
    \A k \in 1..Len(body) :
      /\ IsSentence(body[k])
      /\ \A p \in 1..Len(body[k]) : ~IsLineBreak(body[k][p])

\* Knormalize has written two lines, the last line normalize returned being
\* one with a line break in it.
C7_Witness ==
  /\ pc = "written"
  /\ Len(body) = 2
  /\ \E p \in 1..Len(line) : IsLineBreak(line[p])

----------------------------------------------------------------------------
(* Claims about the reading passes                                         *)

\* C3 as stated: the reader returning no digit, readNumber returns a line
\* without any of the digits 0-9.
C3_NoDigitLeft ==
  pc = "readNumber.ret" => \A p \in 1..Len(line) : ~IsAsciiDigit(line[p])

\* The periods of a line that stand between two digits
PeriodsInTokens(s) ==
  {p \in 1..Len(s) :
     s[p] = PERIOD /\ IsDigit(At(s, p - 1)) /\ IsDigit(At(s, p + 1))}

\* C9 as stated: readNumber rewrites only tokens of the shape sign, digits,
\* ('.' digits); a period after a digit run that no digit follows is no part
\* of a token and stays in the line.
C9_PeriodKept ==
  pc = "readNumber.ret" =>
    Count(line, PERIOD) >= Count(prev, PERIOD) - Cardinality(PeriodsInTokens(prev))

\* C4 as stated: after readABC no capital letter remains unless a lowercase
\* letter follows it; a capital letter at the end of the line is replaced too.
C4_CapitalsRead ==
  pc = "readABC.ret" =>
    \A p \in 1..Len(line) : IsUpper(line[p]) => IsLower(At(line, p + 1))

\* The 14 plain and the 5 tense consonants
Consonants == {12593, 12596, 12599, 12601, 12609, 12610, 12613, 12615, 12616,
               12618, 12619, 12620, 12621, 12622,
               12594, 12600, 12611, 12614, 12617}

\* C6 as stated: after readHangulLetter none of the 19 consonants remains.
C6_ConsonantsRead ==
  pc = "readHangulLetter.ret" =>
    \A p \in 1..Len(line) : line[p] \notin Consonants

\* The matches of the pattern of the loop that pc is in
MatchesLeft ==
  CASE pc \in {"readNumber.loop", "readNumber.ret"} -> Len(NumberSpans(line))
    [] pc \in {"readABC.loop", "readABC.ret"} -> Len(ABCSpans(line))
    [] pc \in {"readAlphabet.loop", "readAlphabet.ret"} -> Len(AlphabetSpans(line))
    [] OTHER -> 0

\* C10 as stated: the readers returning no match of the loop's pattern, the
\* fresh scan of iteration i finds total - i matches, no iteration finds an
\* empty list, and no match is left when the loop has ended.
C10_RescanCount ==
  /\ pc # "raised"
  /\ (pc \in {"readNumber.loop", "readABC.loop", "readAlphabet.loop"} /\ i > 0)
       => found = total - (i - 1)
  /\ pc \in {"readNumber.ret", "readABC.ret", "readAlphabet.ret"}
       => MatchesLeft = 0

====
